---- MODULE Spec2Model ----
(***************************************************************************)
(* Model of travis/getaddons.py: discovery of installable Odoo modules and *)
(* addon directories in a directory tree with symbolic links, and the      *)
(* resolver of the modules touched by a git change range.                  *)
(*                                                                         *)
(* A path is a sequence of segments read from the filesystem root; a       *)
(* trailing separator is a last segment "" ("/r/" is <<"r", "">>).  The    *)
(* filesystem is a function from the real path of every entry to what is   *)
(* stored there: a directory, a file with a content, or a symbolic link    *)
(* with the real path it leads to.                                         *)
(***************************************************************************)
EXTENDS Naturals, Integers, Sequences, FiniteSets, TLC

VARIABLES
    tree,       \* the filesystem: real path -> entry
    order,      \* the enumeration order os.listdir and set iteration happen to use
    op,         \* the function that was called
    pc,         \* position of the running call
    arg,        \* the path the function was called with
    stack,      \* get_addons: the active calls, outermost first
    raw,        \* get_addons: res of the outermost call before deduplication
    result,     \* the value returned
    outcome,    \* "running", "returned" or the exception that ended the call
    reads,      \* manifest paths handed to open(), in order
    ref,        \* get_modules_changed: the ref argument
    changed,    \* get_modules_changed: what get_items_changed answered
    calls       \* get_modules_changed: the calls made, in order

vars == <<tree, order, op, pc, arg, stack, raw, result, outcome, reads,
          ref, changed, calls>>

----------------------------------------------------------------------------
(* Names and their order *)

MANIFEST_FILES == <<"__manifest__.py", "__odoo__.py", "__openerp__.py", "__terp__.py">>

InitPy == "__init__.py"

\* Every name of the model, in the order Python's sorted() gives strings
\* (by code point: "." < "_" < lower-case letters).
NameOrder ==
    <<".h", "__init__.py", "__manifest__.py", "__odoo__.py", "__openerp__.py",
      "__terp__.py", "a", "b", "l", "m", "n", "r", "t", "x", "zz">>

Rank(n) == CHOOSE i \in DOMAIN NameOrder : NameOrder[i] = n

\* item.startswith('.')
StartsWithDot(n) == n \in {".h"}

SeqToSet(s) == {s[i] : i \in DOMAIN s}

RECURSIVE SortedBy(_, _)
SortedBy(S, asc) ==
    IF S = {} THEN <<>>
    ELSE LET x == CHOOSE y \in S : \A z \in S :
                      IF asc THEN Rank(y) <= Rank(z) ELSE Rank(y) >= Rank(z)
         IN  <<x>> \o SortedBy(S \ {x}, asc)

\* sorted(names)
sorted(S) == SortedBy(S, TRUE)

----------------------------------------------------------------------------
(* os.path and os on the modelled filesystem *)

Last(p) == p[Len(p)]
Front(p) == SubSeq(p, 1, Len(p) - 1)

IsEntry(p, k) == p \in DOMAIN tree /\ tree[p].kind = k

\* os.path.realpath: every symbolic link on the way is replaced by the real
\* path it leads to, and a trailing separator is dropped.
RECURSIVE Walk(_, _)
Walk(cur, rest) ==
    IF rest = <<>> THEN cur
    ELSE IF Head(rest) = "" THEN Walk(cur, Tail(rest))
    ELSE Walk(IF IsEntry(Append(cur, Head(rest)), "link")
              THEN tree[Append(cur, Head(rest))].target
              ELSE Append(cur, Head(rest)),
              Tail(rest))

realpath(p) == Walk(<<>>, p)

\* What stat says of a real path: the root and the stored directories are
\* directories.
IsRealDir(d) == d = <<>> \/ IsEntry(d, "dir")

\* os.path.isdir follows links.
isdir(p) == IsRealDir(realpath(p))

\* os.path.islink is lstat on the path: with a trailing separator the
\* kernel follows the link, and the answer is False.
islink(p) ==
    /\ p # <<>>
    /\ Last(p) # ""
    /\ IsEntry(Append(realpath(Front(p)), Last(p)), "link")

\* stat succeeds on the real path d that p leads to; a trailing separator
\* needs a directory.
StatOk(p, d) ==
    /\ d = <<>> \/ d \in DOMAIN tree
    /\ (p # <<>> /\ Last(p) = "") => IsRealDir(d)

\* os.path.exists follows links.
exists(p) == StatOk(p, realpath(p))

\* The names stored in the real directory d.
ChildNames(d) ==
    {Last(q) : q \in {q \in DOMAIN tree :
                         Len(q) = Len(d) + 1 /\ SubSeq(q, 1, Len(d)) = d}}

\* The names os.listdir(p) returns, as a set.
ListNames(p) == ChildNames(realpath(p))

\* os.listdir(p): the names in the order the filesystem enumerates them.
listdir(p) == SortedBy(ListNames(p), order = "asc")

\* os.path.join(p, item) for a relative item
join(p, item) ==
    IF p # <<>> /\ Last(p) = "" THEN Append(Front(p), item) ELSE Append(p, item)

basename(p) == IF p = <<>> THEN "" ELSE Last(p)

dirname(p) == IF p = <<>> THEN <<>> ELSE Front(p)

\* open(manifest_path).read()
ReadFile(p) == tree[realpath(p)].content

----------------------------------------------------------------------------
(* resolve_path, is_module, is_installable_module, get_modules, is_addons *)

resolve_path(path) == IF islink(path) THEN realpath(path) ELSE path

\* is_module answers False, or the path of the manifest.
NotModule == [found |-> FALSE, path |-> <<>>]

\* [x for x in files if x in (MANIFEST_FILES + ["__init__.py"])]
Filter(files) ==
    SelectSeq(files, LAMBDA x : x \in SeqToSet(MANIFEST_FILES) \cup {InitPy})

\* Mutant of ManifestIn: several manifests beside __init__.py are accepted.
ManifestInAtLeastTwo(resolved_path, filtered) ==
    IF Len(filtered) >= 2 /\ InitPy \in SeqToSet(filtered)
    THEN [found |-> TRUE,
          path  |-> join(resolved_path,
                         Head(SelectSeq(filtered, LAMBDA x : x # InitPy)))]
    ELSE NotModule

\* is_module once the listing is filtered
ManifestIn(resolved_path, filtered) ==
    IF Len(filtered) = 2 /\ InitPy \in SeqToSet(filtered)
    THEN [found |-> TRUE,
          path  |-> join(resolved_path,
                         Head(SelectSeq(filtered, LAMBDA x : x # InitPy)))]
    ELSE NotModule

\* is_module once the path is resolved
ModuleAt(resolved_path) ==
    IF ~isdir(resolved_path) THEN NotModule
    ELSE ManifestIn(resolved_path, Filter(listdir(resolved_path)))

is_module(path) == ModuleAt(resolve_path(path))

\* ast.literal_eval of a manifest content raises on "malformed"; the other
\* contents are mappings, and manifest.get("installable", True) is falsy
\* only for "false".
Parses(content) == content # "malformed"

\* Mutant of Installable: the installable key is not looked at.
InstallableAlways(content) == TRUE

Installable(content) == content # "false"

\* is_installable_module once the manifest is read
Evaluated(manifest_path, content) ==
    IF ~Parses(content)
    THEN [val |-> NotModule, err |-> TRUE, read |-> <<manifest_path.path>>]
    ELSE [val |-> IF Installable(content) THEN manifest_path ELSE NotModule,
          err |-> FALSE, read |-> <<manifest_path.path>>]

\* is_installable_module once is_module has answered
Accepted(manifest_path) ==
    IF ~manifest_path.found
    THEN [val |-> NotModule, err |-> FALSE, read |-> <<>>]
    ELSE Evaluated(manifest_path, ReadFile(manifest_path.path))

\* is_installable_module: val is the manifest path or False, err says that
\* literal_eval raised, read is what was opened.
is_installable_module(path) == Accepted(is_module(path))

\* The name get_modules appends for an accepted child.
ModuleName(item_path, item) ==
    IF islink(item_path) THEN basename(realpath(item_path)) ELSE item

\* Mutant of Collect: the parse error is caught and the child skipped.
CollectSwallowing(acc, item_path, item, r) ==
    [res   |-> IF r.val.found THEN Append(acc.res, ModuleName(item_path, item))
               ELSE acc.res,
     err   |-> FALSE,
     reads |-> acc.reads \o r.read]

\* One turn of the loop of get_modules: r is is_installable_module(item_path).
Collect(acc, item_path, item, r) ==
    [res   |-> IF r.val.found THEN Append(acc.res, ModuleName(item_path, item))
               ELSE acc.res,
     err   |-> r.err,
     reads |-> acc.reads \o r.read]

\* The loop of get_modules over the listing; an exception leaves the loop.
RECURSIVE ModulesLoop(_, _, _)
ModulesLoop(resolved_path, items, acc) ==
    IF items = <<>> \/ acc.err THEN acc
    ELSE ModulesLoop(resolved_path, Tail(items),
                     Collect(acc, join(resolved_path, Head(items)), Head(items),
                             is_installable_module(join(resolved_path, Head(items)))))

NoModules == [res |-> <<>>, err |-> FALSE, reads |-> <<>>]

\* get_modules once the path is resolved
ModulesIn(resolved_path) ==
    IF isdir(resolved_path)
    THEN ModulesLoop(resolved_path, listdir(resolved_path), NoModules)
    ELSE NoModules

\* "Avoid empty basename when path ends with slash"
StripSlash(path) == IF basename(path) = "" THEN dirname(path) ELSE path

get_modules(path) == ModulesIn(resolve_path(StripSlash(path)))

\* get_modules(path) != []
NotEmpty(m) == [val |-> m.res # <<>>, err |-> m.err, reads |-> m.reads]

is_addons(path) == NotEmpty(get_modules(path))

----------------------------------------------------------------------------
(* get_addons: one step per call, per loop iteration and per return *)

\* The depth of nested get_addons calls at which the interpreter gives up
\* (RecursionError: maximum recursion depth exceeded).
MaxDepth == 6

NoResult == << <<"?">> >>

\* "Remove duplicates while preserving order"
RECURSIVE UniqueLoop(_, _)
UniqueLoop(res, unique_res) ==
    IF res = <<>> THEN unique_res
    ELSE UniqueLoop(Tail(res),
                    IF Head(res) \in SeqToSet(unique_res) THEN unique_res
                    ELSE Append(unique_res, Head(res)))

\* Mutant of Unique: the list is returned as accumulated.
UniqueKeepsAll(res) == res

Unique(res) == UniqueLoop(res, <<>>)

\* What the caller does with the list a nested call returned.
Extend(frame, nested_addons) ==
    IF frame.isA
    THEN [frame EXCEPT !.res = @ \o nested_addons]
    ELSE [frame EXCEPT !.res = @ \o SelectSeq(nested_addons,
                                              LAMBDA x : x # frame.cur)]

\* What the else branch appends for a child that is an addon directory.
AddonPath(item_path) ==
    IF islink(item_path) THEN realpath(item_path) ELSE item_path

Raise(exc, stk, rd) ==
    /\ outcome' = exc
    /\ pc' = "done"
    /\ stack' = stk
    /\ reads' = rd
    /\ UNCHANGED <<result, raw>>

\* The frame of a call whose path does not exist: it returns [].
Absent(path) ==
    [path |-> path, resolved |-> path, isA |-> FALSE,
     items |-> <<>>, res |-> <<>>, cur |-> <<>>]

\* Mutant of Frame: the path is listed whether or not it is an addon
\* directory.
FrameAlwaysListed(path, resolved_path, ia) ==
    [path     |-> path,
     resolved |-> resolved_path,
     isA      |-> ia.val,
     items    |-> IF isdir(resolved_path) THEN sorted(ListNames(resolved_path))
                  ELSE <<>>,
     res      |-> <<resolved_path>>,
     cur      |-> <<>>]

\* The frame of a call once is_addons(resolved_path) has answered ia.
Frame(path, resolved_path, ia) ==
    [path     |-> path,
     resolved |-> resolved_path,
     isA      |-> ia.val,
     items    |-> IF isdir(resolved_path) THEN sorted(ListNames(resolved_path))
                  ELSE <<>>,
     res      |-> IF ia.val THEN <<resolved_path>> ELSE <<>>,
     cur      |-> <<>>]

Push(frame, stk, rd) ==
    /\ stack' = Append(stk, frame)
    /\ pc' = "get_addons"
    /\ reads' = rd
    /\ UNCHANGED <<outcome, result, raw>>

\* get_addons once is_addons(resolved_path) has answered ia
Classified(path, resolved_path, ia, stk, rd) ==
    IF ia.err THEN Raise("ParseError", stk, rd \o ia.reads)
    ELSE Push(Frame(path, resolved_path, ia), stk, rd \o ia.reads)

\* get_addons once the path is resolved
Resolved(path, resolved_path, stk, rd) ==
    Classified(path, resolved_path, is_addons(resolved_path), stk, rd)

\* The head of get_addons(path), called with stk as the active calls and rd
\* as the manifests read so far.
Enter(path, stk, rd) ==
    IF Len(stk) >= MaxDepth THEN Raise("RecursionError", stk, rd)
    ELSE IF ~exists(path) THEN Push(Absent(path), stk, rd)
    ELSE Resolved(path, resolve_path(path), stk, rd)

Top == stack[Len(stack)]

Below == SubSeq(stack, 1, Len(stack) - 1)

Running == pc = "get_addons" /\ stack # <<>>

\* the call of get_addons(path)
GetAddonsCall(path) ==
    /\ pc = "idle"
    /\ op' = "get_addons"
    /\ arg' = path
    /\ Enter(path, <<>>, reads)
    /\ UNCHANGED <<tree, order, ref, changed, calls>>

\* The top frame with its first item taken.
Taken == [Top EXCEPT !.items = Tail(@)]

\* if branch, an item that is hidden or not a directory
SkipItemA ==
    /\ Running /\ Top.isA /\ Top.items # <<>>
    /\ StartsWithDot(Head(Top.items)) \/ ~isdir(join(Top.resolved, Head(Top.items)))
    /\ stack' = Append(Below, Taken)
    /\ UNCHANGED <<tree, order, op, pc, arg, raw, result, outcome, reads,
                   ref, changed, calls>>

\* if branch, a directory: nested_addons = get_addons(item_path)
DescendA ==
    /\ Running /\ Top.isA /\ Top.items # <<>>
    /\ ~StartsWithDot(Head(Top.items))
    /\ isdir(join(Top.resolved, Head(Top.items)))
    /\ Enter(join(Top.resolved, Head(Top.items)), Append(Below, Taken), reads)
    /\ UNCHANGED <<tree, order, op, arg, ref, changed, calls>>

\* else branch once is_addons(item_path) has answered ia
Child(item_path, ia) ==
    IF ia.err THEN Raise("ParseError", stack, reads \o ia.reads)
    ELSE IF ~ia.val
    THEN /\ stack' = Append(Below, Taken)
         /\ reads' = reads \o ia.reads
         /\ UNCHANGED <<pc, outcome, result, raw>>
    ELSE Enter(item_path,
               Append(Below, [Taken EXCEPT !.res = Append(@, AddonPath(item_path)),
                                           !.cur = item_path]),
               reads \o ia.reads)

\* else branch, one item: is_addons(item_path), append, nested call
StepB ==
    /\ Running /\ ~Top.isA /\ Top.items # <<>>
    /\ Child(join(Top.resolved, Head(Top.items)),
             is_addons(join(Top.resolved, Head(Top.items))))
    /\ UNCHANGED <<tree, order, op, arg, ref, changed, calls>>

\* The caller takes the list the nested call returned.
Resume(stk, unique_res) ==
    Append(SubSeq(stk, 1, Len(stk) - 1), Extend(stk[Len(stk)], unique_res))

\* The return of a call with res accumulated.
Returns(res, unique_res) ==
    IF Below = <<>>
    THEN /\ result' = unique_res
         /\ raw' = res
         /\ outcome' = "returned"
         /\ pc' = "done"
         /\ stack' = <<>>
    ELSE /\ stack' = Resume(Below, unique_res)
         /\ UNCHANGED <<pc, outcome, result, raw>>

\* the loop is over: deduplicate and return to the caller
Return ==
    /\ Running /\ Top.items = <<>>
    /\ Returns(Top.res, Unique(Top.res))
    /\ UNCHANGED <<tree, order, op, arg, reads, ref, changed, calls>>

----------------------------------------------------------------------------
(* get_modules and is_module called on their own *)

\* get_modules(path) has answered m
Answer(m) ==
    /\ reads' = reads \o m.reads
    /\ outcome' = IF m.err THEN "ParseError" ELSE "returned"
    /\ result' = IF m.err THEN result ELSE m.res

\* the call of get_modules(path)
GetModulesCall(path) ==
    /\ pc = "idle"
    /\ op' = "get_modules"
    /\ arg' = path
    /\ pc' = "done"
    /\ Answer(get_modules(path))
    /\ UNCHANGED <<tree, order, stack, raw, ref, changed, calls>>

\* the call of is_module(path)
IsModuleCall(path) ==
    /\ pc = "idle"
    /\ op' = "is_module"
    /\ arg' = path
    /\ pc' = "done"
    /\ outcome' = "returned"
    /\ result' = is_module(path)
    /\ UNCHANGED <<tree, order, stack, raw, reads, ref, changed, calls>>

----------------------------------------------------------------------------
(* get_modules_changed: a ref is a sequence of characters, a changed item   *)
(* the sequence of its segments between "/"                                  *)

HEAD == <<"H", "E", "A", "D">>

\* s.split("/", 1): the part before the first "/" and the rest, or s alone.
RECURSIVE SplitFrom(_, _)
SplitFrom(before, s) ==
    IF s = <<>> THEN <<before>>
    ELSE IF Head(s) = "/" THEN <<before, Tail(s)>>
    ELSE SplitFrom(Append(before, Head(s)), Tail(s))

Split1(s) == SplitFrom(<<>>, s)

\* Mutant of FetchRef: ":ref" is appended to every ref.
FetchRefAlways(r) == r \o <<":">> \o r

\* "to force create branch"
FetchRef(r) == IF ":" \notin SeqToSet(r) THEN r \o <<":">> \o r ELSE r

\* Mutant of FoldersChanged: items without "/" are taken too.
FoldersChangedAll(items_changed) ==
    {Head(items_changed[i]) : i \in {j \in DOMAIN items_changed :
                                         Len(items_changed[j]) >= 1}}

\* item_changed.split("/")[0] for the items with "/" in item_changed
FoldersChanged(items_changed) ==
    {Head(items_changed[i]) : i \in {j \in DOMAIN items_changed :
                                         Len(items_changed[j]) >= 2}}

\* list(modules & folders_changed), in the order the set happens to iterate
ModulesChanged(modules, folders_changed) ==
    SortedBy(SeqToSet(modules) \cap folders_changed, order = "asc")

ModulesChangedPath(resolved_path, modules_changed) ==
    [i \in DOMAIN modules_changed |-> join(resolved_path, modules_changed[i])]

Fails(exc) ==
    /\ outcome' = exc
    /\ pc' = "done"

\* the call of get_modules_changed(path, ref)
GetModulesChangedCall(path, r) ==
    /\ pc = "idle"
    /\ op' = "get_modules_changed"
    /\ arg' = path
    /\ ref' = r
    /\ calls' = <<[call |-> "GitRun", args |-> <<join(resolve_path(path), ".git")>>]>>
    /\ pc' = IF r # HEAD THEN "fetch" ELSE "query"
    /\ UNCHANGED <<tree, order, stack, raw, result, outcome, reads, changed>>

\* git_run_obj.run(["fetch"] + fetch_ref.split("/", 1)), which may raise
Fetch(ok) ==
    /\ pc = "fetch"
    /\ calls' = Append(calls, [call |-> "fetch", args |-> Split1(FetchRef(ref))])
    /\ IF ok THEN pc' = "query" /\ UNCHANGED outcome ELSE Fails("GitError")
    /\ UNCHANGED <<tree, order, op, arg, stack, raw, result, reads, ref, changed>>

\* git_run_obj.get_items_changed(ref), which may raise
GetItemsChanged(ok, items_changed) ==
    /\ pc = "query"
    /\ calls' = Append(calls, [call |-> "get_items_changed", args |-> <<ref>>])
    /\ IF ok
       THEN pc' = "modules" /\ changed' = items_changed /\ UNCHANGED outcome
       ELSE Fails("GitError") /\ UNCHANGED changed
    /\ UNCHANGED <<tree, order, op, arg, stack, raw, result, reads, ref>>

\* get_modules(resolved_path) has answered m
Intersect(resolved_path, m) ==
    /\ reads' = reads \o m.reads
    /\ outcome' = IF m.err THEN "ParseError" ELSE "returned"
    /\ result' = IF m.err THEN result
                 ELSE ModulesChangedPath(resolved_path,
                          ModulesChanged(m.res, FoldersChanged(changed)))

\* modules = set(get_modules(resolved_path)) and the rest of the function
ChangedModules ==
    /\ pc = "modules"
    /\ pc' = "done"
    /\ calls' = Append(calls, [call |-> "get_modules", args |-> <<resolve_path(arg)>>])
    /\ Intersect(resolve_path(arg), get_modules(resolve_path(arg)))
    /\ UNCHANGED <<tree, order, op, arg, stack, raw, ref, changed>>

----------------------------------------------------------------------------
(* Directory trees *)

Dir == [kind |-> "dir", content |-> "", target |-> <<>>]

File(c) == [kind |-> "file", content |-> c, target |-> <<>>]

Link(t) == [kind |-> "link", content |-> "", target |-> t]

Nothing == [p \in {} |-> Dir]

\* A directory p holding __init__.py and the given manifest files, all of
\* content c.
DirWith(p, hasInit, manifests, c) ==
    (p :> Dir)
    @@ (IF hasInit THEN Append(p, InitPy) :> File("") ELSE Nothing)
    @@ [q \in {Append(p, f) : f \in manifests} |-> File(c)]

\* A module at p whose manifest has content c; nothing for c = "none".
Module(p, c) ==
    IF c = "none" THEN Nothing ELSE DirWith(p, TRUE, {"__manifest__.py"}, c)

R == <<"r">>
A == <<"r", "a">>
B == <<"r", "a", "b">>
H == <<"r", ".h">>
X == <<"x">>
XN == <<"x", "n">>
Gone == <<"zz">>

\* /r/a/b, each directory with or without a module m; a hidden /r/.h with or
\* without one; /x with the module n; and at most one link l.
AddonTrees ==
    { (R :> Dir) @@ (A :> Dir) @@ (B :> Dir) @@ (X :> Dir)
      @@ Module(XN, "nokey")
      @@ Module(Append(R, "m"), mr) @@ Module(Append(A, "m"), ma)
      @@ Module(Append(B, "m"), mb)
      @@ (IF mh = "none" THEN Nothing ELSE (H :> Dir) @@ Module(Append(H, "m"), mh))
      @@ lnk :
        mr \in {"none", "nokey", "false", "malformed"},
        ma \in {"none", "nokey", "false", "malformed"},
        mb \in {"none", "nokey", "false", "malformed"},
        mh \in {"none", "nokey"},
        lnk \in {Nothing} \cup
                {Append(at, "l") :> Link(to) :
                    at \in {R, A, B}, to \in {R, A, B, X, XN, Gone}} }

AddonRoots ==
    {R, <<"r", "">>, A, <<"r", "l">>, <<"r", "l", "">>, <<"r", "l", "b">>, Gone}

\* /r with a child a holding any choice of __init__.py and manifests (and a
\* file t), a child b, a link l, the module /x/t, and the link /n to /r.
ModuleTrees ==
    { (R :> Dir) @@ (X :> Dir) @@ (<<"n">> :> Link(R))
      @@ DirWith(A, hasInit, manifests, c) @@ (Append(A, "t") :> File(""))
      @@ Module(<<"x", "t">>, ct)
      @@ b @@ lnk :
        hasInit \in BOOLEAN,
        manifests \in SUBSET SeqToSet(MANIFEST_FILES),
        c \in {"nokey", "false", "malformed"},
        ct \in {"true", "false"},
        b \in {Nothing, <<"r", "b">> :> File(""), Module(<<"r", "b">>, "nokey"),
               Module(<<"r", "b">>, "false")},
        lnk \in {Nothing} \cup {<<"r", "l">> :> Link(to) : to \in {<<"x", "t">>, A, Gone}} }

ModulePaths ==
    {A, <<"r", "a", "">>, <<"r", "b">>, <<"r", "l">>, <<"r", "l", "">>,
     <<"n", "a">>, <<"r", "a", "t">>, Gone}

ModuleRoots == {R, <<"r", "">>, <<"n">>, <<"n", "">>, A, Gone}

\* /r with the modules a and b, a link l to the module /x/t, and the link /n
\* to /r.
ChangedTrees ==
    { (R :> Dir) @@ (X :> Dir) @@ (<<"n">> :> Link(R))
      @@ Module(A, ca) @@ Module(<<"r", "b">>, cb) @@ Module(<<"x", "t">>, "nokey")
      @@ lnk :
        ca \in {"nokey", "false", "malformed"},
        cb \in {"none", "nokey"},
        lnk \in {Nothing, <<"r", "l">> :> Link(<<"x", "t">>)} }

ChangedRoots == {R, <<"r", "">>, <<"n">>}

MaxRefLen == 2

RECURSIVE SeqsUpTo(_, _)
SeqsUpTo(S, n) ==
    IF n = 0 THEN {<<>>}
    ELSE SeqsUpTo(S, n - 1) \cup
         {Append(q, x) : q \in {q \in SeqsUpTo(S, n - 1) : Len(q) = n - 1}, x \in S}

Refs == {HEAD} \cup (SeqsUpTo({"o", ":", "/"}, MaxRefLen) \ {<<>>})

MaxChanged == 2

\* "a", "a/t", "b/t", "l/t", "t/t"
ChangedItems ==
    {<<"a">>, <<"a", "t">>, <<"b", "t">>, <<"l", "t">>, <<"t", "t">>}

ChangedLists == SeqsUpTo(ChangedItems, MaxChanged)

InitCommon ==
    /\ order \in {"asc", "desc"}
    /\ op = "none"
    /\ pc = "idle"
    /\ arg = <<>>
    /\ stack = <<>>
    /\ raw = <<>>
    /\ result = NoResult
    /\ outcome = "running"
    /\ reads = <<>>

NoGit ==
    /\ ref = <<>>
    /\ changed = <<>>
    /\ calls = <<>>

Init ==
    /\ tree \in AddonTrees
    /\ InitCommon
    /\ NoGit

Next ==
    \/ \E path \in AddonRoots : GetAddonsCall(path)
    \/ \E path \in AddonRoots : GetModulesCall(path)
    \/ SkipItemA
    \/ DescendA
    \/ StepB
    \/ Return

Spec == Init /\ [][Next]_vars

InitModules ==
    /\ tree \in ModuleTrees
    /\ InitCommon
    /\ NoGit

NextModules ==
    \/ \E path \in ModulePaths : IsModuleCall(path)
    \/ \E path \in ModuleRoots : GetModulesCall(path)

SpecModules == InitModules /\ [][NextModules]_vars

InitChanged ==
    /\ tree \in ChangedTrees
    /\ InitCommon
    /\ NoGit

NextChanged ==
    \/ \E path \in ChangedRoots, r \in Refs : GetModulesChangedCall(path, r)
    \/ \E ok \in BOOLEAN : Fetch(ok)
    \/ \E ok \in BOOLEAN, items_changed \in ChangedLists : GetItemsChanged(ok, items_changed)
    \/ ChangedModules

SpecChanged == InitChanged /\ [][NextChanged]_vars

----------------------------------------------------------------------------
(* What the directory tree holds, stated on the tree itself *)

Manifests == SeqToSet(MANIFEST_FILES)

\* Where the child c of the real directory d leads.
Target(d, c) ==
    IF IsEntry(Append(d, c), "link") THEN tree[Append(d, c)].target ELSE Append(d, c)

\* The real directory d holds the entry-point marker and exactly one manifest.
HoldsModule(d) ==
    /\ IsRealDir(d)
    /\ InitPy \in ChildNames(d)
    /\ Cardinality(ChildNames(d) \cap Manifests) = 1

ManifestOf(d) == Append(d, CHOOSE f \in ChildNames(d) \cap Manifests : TRUE)

\* The children of d that are modules with the given manifest contents.
ModuleChildren(d, contents) ==
    {c \in ChildNames(d) :
        HoldsModule(Target(d, c)) /\ tree[ManifestOf(Target(d, c))].content \in contents}

InstallableChildren(d) == ModuleChildren(d, {"nokey", "true"})

\* The name under which the child c of d is a module.
Reported(d, c) == Last(Target(d, c))

\* d directly contains at least one installable module.
HoldsInstallable(d) == IsRealDir(d) /\ InstallableChildren(d) # {}

\* The real directories at or below the real directory d.
DirsBelow(d) ==
    {q \in DOMAIN tree \cup {<<>>} :
        IsRealDir(q) /\ Len(q) >= Len(d) /\ SubSeq(q, 1, Len(d)) = d}

Count(seq, x) == Cardinality({i \in DOMAIN seq : seq[i] = x})

NoDup(seq) == \A i, j \in DOMAIN seq : seq[i] = seq[j] => i = j

FirstIndex(seq, x) == CHOOSE i \in DOMAIN seq : seq[i] = x /\ \A j \in 1..(i - 1) : seq[j] # x

\* The path p is itself a symbolic link (a trailing separator aside).
NamesLink(p) ==
    /\ StripSlash(p) # <<>>
    /\ IsEntry(Append(realpath(Front(StripSlash(p))), Last(StripSlash(p))), "link")

Returned(f) == op = f /\ pc = "done" /\ outcome = "returned"

----------------------------------------------------------------------------
(* The claims *)

\* C1: get_addons terminates on every finite tree, also with a subdirectory
\* linked back to an ancestor: no real directory is entered again while a
\* call on it is still active, and the recursion limit is never reached.
C1_TerminatesOnLinkCycles ==
    /\ outcome # "RecursionError"
    /\ \A i, j \in DOMAIN stack :
          i < j /\ exists(stack[i].path) /\ exists(stack[j].path)
              => realpath(stack[i].resolved) # realpath(stack[j].resolved)

\* C2: get_addons(root) is complete: every directory at or below an existing
\* root that directly contains an installable module is in the result,
\* whatever lies between the root and it.
C2_Complete ==
    (Returned("get_addons") /\ exists(arg))
        => \A d \in DirsBelow(realpath(arg)) :
               HoldsInstallable(d) => d \in {realpath(result[i]) : i \in DOMAIN result}

\* C3: the list get_addons returns holds no element twice, holds every
\* element discovered, and keeps them in the order of their first discovery.
C3_NoDuplicates ==
    Returned("get_addons")
        => /\ NoDup(result)
           /\ SeqToSet(result) = SeqToSet(raw)
           /\ \A i, j \in DOMAIN result :
                  i < j => FirstIndex(raw, result[i]) < FirstIndex(raw, result[j])

\* A directory and a link to it were both discovered, and one entry was kept.
C3_Witness ==
    /\ Returned("get_addons")
    /\ Len(raw) > Len(result)
    /\ \E c \in ChildNames(realpath(arg)) : IsEntry(Append(realpath(arg), c), "link")

\* C4: get_addons is sound: every path returned is a directory that directly
\* contains an installable module.
C4_Sound ==
    Returned("get_addons")
        => \A i \in DOMAIN result : HoldsInstallable(realpath(result[i]))

\* The root holds no module but a subdirectory does: the subdirectory is
\* returned and the root is not.
C4_Witness ==
    /\ Returned("get_addons")
    /\ ~HoldsInstallable(realpath(arg))
    /\ result # <<>>
    /\ arg \notin SeqToSet(result)
    /\ realpath(arg) \notin SeqToSet(result)

\* C5: is_module(path) returns a manifest path iff path is a directory whose
\* listing holds __init__.py and exactly one of the four manifest names, and
\* the path returned is that manifest in the resolved directory.
C5_IsModule ==
    (op = "is_module" /\ pc = "done")
        => IF HoldsModule(realpath(arg))
           THEN /\ result.found
                /\ result.path = join(IF islink(arg) THEN realpath(arg) ELSE arg,
                                      Last(ManifestOf(realpath(arg))))
           ELSE ~result.found

\* A link to a module: the manifest returned is the one in the link's target.
C5_Witness ==
    /\ op = "is_module" /\ pc = "done"
    /\ islink(arg)
    /\ result.found
    /\ result.path = ManifestOf(realpath(arg))

\* C6: get_modules(path) lists exactly the children of path that are
\* modules not marked non-installable: none with installable false, all
\* without the key, and nothing that is not a module.
C6_ListModules ==
    Returned("get_modules")
        => IF IsRealDir(realpath(arg))
           THEN /\ Len(result) = Cardinality(InstallableChildren(realpath(arg)))
                /\ \A c \in InstallableChildren(realpath(arg)) :
                       Count(result, Reported(realpath(arg), c))
                         = Cardinality({k \in InstallableChildren(realpath(arg)) :
                              Reported(realpath(arg), k) = Reported(realpath(arg), c)})
           ELSE result = <<>>

\* One child module is marked non-installable and left out, another has no
\* installable key and is listed.
C6_Witness ==
    /\ Returned("get_modules")
    /\ ModuleChildren(realpath(arg), {"false"}) # {}
    /\ ModuleChildren(realpath(arg), {"nokey"}) # {}
    /\ Len(result) = Cardinality(InstallableChildren(realpath(arg)))
    /\ result # <<>>

\* The names get_modules_changed is to return: the modules of the root that
\* are the first segment of a changed item with a separator.
NamesChanged ==
    {Reported(realpath(arg), c) : c \in InstallableChildren(realpath(arg))}
    \cap {changed[i][1] : i \in {j \in DOMAIN changed : Len(changed[j]) >= 2}}

\* C7 as stated: get_modules_changed(path, ref) returns exactly, each once,
\* join(path, n) for the names n that are modules of path and the first
\* segment of a changed item with a separator.
C7_JoinsThePathGiven ==
    Returned("get_modules_changed")
        => /\ NoDup(result)
           /\ SeqToSet(result) = {join(arg, n) : n \in NamesChanged}

\* C7 as amended: the paths returned are join(resolve_path(path), n): under
\* the real path of the root when path is a symbolic link.
C7_JoinsTheResolvedPath ==
    Returned("get_modules_changed")
        => /\ NoDup(result)
           /\ SeqToSet(result) = {join(IF islink(arg) THEN realpath(arg) ELSE arg, n) :
                                     n \in NamesChanged}

\* A changed file at the repository root named like a module contributes
\* nothing, while a changed file inside another module does.
C7_Witness ==
    /\ Returned("get_modules_changed")
    /\ \E i \in DOMAIN changed :
          /\ Len(changed[i]) = 1
          /\ changed[i][1] \in {Reported(realpath(arg), c) :
                                   c \in InstallableChildren(realpath(arg))}
          /\ join(IF islink(arg) THEN realpath(arg) ELSE arg, changed[i][1])
                 \notin SeqToSet(result)
    /\ result # <<>>

\* C8: symbolic links are reported by their targets: get_modules lists a
\* linked module under the basename of the link's target and not under the
\* link's name, and get_addons returns the real path, never the link path,
\* of an addon directory reached through a link (the root or a child).
C8_LinksReportedByTarget ==
    /\ Returned("get_modules") /\ IsRealDir(realpath(arg))
         => \A c \in InstallableChildren(realpath(arg)) :
                IsEntry(Append(realpath(arg), c), "link")
                    => /\ Reported(realpath(arg), c) \in SeqToSet(result)
                       /\ c \in SeqToSet(result)
                            => \E k \in InstallableChildren(realpath(arg)) :
                                   k # c /\ Reported(realpath(arg), k) = c
    /\ Returned("get_addons") /\ NamesLink(arg) /\ HoldsInstallable(realpath(arg))
         => /\ realpath(arg) \in SeqToSet(result)
            /\ arg \notin SeqToSet(result)
    /\ Returned("get_addons") /\ realpath(arg) = StripSlash(arg)
         => \A c \in ChildNames(realpath(arg)) :
                (IsEntry(Append(realpath(arg), c), "link")
                    /\ HoldsInstallable(Target(realpath(arg), c)))
                    => /\ Target(realpath(arg), c) \in SeqToSet(result)
                       /\ Append(realpath(arg), c) \notin SeqToSet(result)

\* C9: a malformed manifest is fatal: once one is read, the call ends in
\* the parse error with no result, and nothing is read after it.
C9_MalformedIsFatal ==
    \A i \in DOMAIN reads :
        ReadFile(reads[i]) = "malformed"
            => /\ i = Len(reads)
               /\ pc = "done"
               /\ outcome = "ParseError"
               /\ result = NoResult

\* get_addons fails on a manifest below the root after reading others.
C9_Witness ==
    /\ op = "get_addons"
    /\ outcome = "ParseError"
    /\ stack # <<>>
    /\ Len(reads) >= 2
    /\ ReadFile(reads[Len(reads)]) = "malformed"

CallsOf(name) == SelectSeq(calls, LAMBDA c : c.call = name)

\* The refspec of the claim: ref with a colon, ref:ref without.
Refspec == IF ":" \in SeqToSet(ref) THEN ref ELSE ref \o <<":">> \o ref

\* parts is s split on its first "/".
SplitOnFirstSlash(parts, s) ==
    /\ Len(parts) \in {1, 2}
    /\ "/" \notin SeqToSet(parts[1])
    /\ Len(parts) = 1 => parts[1] = s
    /\ Len(parts) = 2 => parts[1] \o <<"/">> \o parts[2] = s

\* C10: get_modules_changed drives git in a fixed order: no fetch for HEAD,
\* otherwise one fetch of the refspec split on its first "/", before the one
\* query of the changed items; when either fails, get_modules is not
\* evaluated and nothing is returned.
C10_GitOrder ==
    op = "get_modules_changed"
        => /\ ref = HEAD => CallsOf("fetch") = <<>>
           /\ (ref # HEAD /\ pc # "fetch")
                => /\ Len(CallsOf("fetch")) = 1
                   /\ calls[2].call = "fetch"
                   /\ SplitOnFirstSlash(calls[2].args, Refspec)
           /\ pc = "fetch" => Len(calls) = 1
           /\ Len(CallsOf("get_items_changed")) <= 1
           /\ \A i \in DOMAIN calls :
                  calls[i].call = "get_items_changed"
                      => /\ i = (IF ref = HEAD THEN 2 ELSE 3)
                         /\ calls[i].args = <<ref>>
           /\ CallsOf("get_modules") # <<>> => Len(CallsOf("get_items_changed")) = 1
           /\ outcome = "GitError"
                => /\ pc = "done"
                   /\ result = NoResult
                   /\ CallsOf("get_modules") = <<>>
                   /\ reads = <<>>
           /\ outcome = "returned" => Len(CallsOf("get_modules")) = 1

\* The fetch of a ref with a "/" and no colon succeeded and the query failed.
C10_Witness ==
    /\ op = "get_modules_changed"
    /\ outcome = "GitError"
    /\ Len(calls) = 3
    /\ "/" \in SeqToSet(ref)
    /\ ":" \notin SeqToSet(ref)
    /\ Len(calls[2].args) = 2

====
